---- MODULE Spec2Model ----
(***************************************************************************)
(* HTTP gateway over local disk and Google Drive (Express + multer +       *)
(* googleapis).  Every request is one asynchronous task on the Node event  *)
(* loop: an action below is one run-to-completion turn of a handler (from  *)
(* its start or from the settlement of the remote call it awaits up to     *)
(* the next await or the response).  Requests interleave at the awaits.    *)
(***************************************************************************)
EXTENDS Integers, FiniteSets, Sequences, TLC

\* ---------------------------------------------------------------- bounds
NReq == 2          \* requests the server receives in one behaviour
MaxClock == 1      \* Date.now() takes the values 0..MaxClock
MaxChunks == 2     \* data chunks a download stream can deliver

Reqs == 1..NReq
Ids == 1..NReq                       \* identifiers the backend can assign
Names == {"a.txt", "b.txt"}          \* file.originalname of a multipart part
Clock == 0..MaxClock
Paths == Clock \X Names              \* file names inside a scratch directory
FolderNames == {"UNDEFINED", "", "docs"}   \* req.body.folderName
Fields == {"image", "file"}          \* multipart field of the two upload routes

\* ---------------------------------------------------------------- state
VARIABLES
    now,       \* Date.now()
    disk,      \* uploadsDir: path -> request whose payload the file holds, 0 = no file
    img,       \* imgDir, same shape
    remote,    \* Drive: id -> [exists, name, content, public]
    nextId,    \* next identifier Drive assigns
    req,       \* request -> its record (position, inputs, response)
    crashed    \* the process died of an uncaught exception

vars == <<now, disk, img, remote, nextId, req, crashed>>

NoFile == [exists |-> FALSE, name |-> "", content |-> 0, public |-> FALSE]

\* A request's record.  kind: the route; pc: where its task stands; field,
\* name, hasFile, ts: the multipart part and the Date.now() of its temporary
\* name; target: the :fileId / :folderId parameter; got: the payload the read
\* stream on file.path delivers; data: response.data.id.  History kept for
\* the properties: calls/returned count the remote calls issued/settled, err
\* names the call whose error console.error logged, unlinked says the task
\* removed its temporary file, left says that file existed when the response
\* was sent, bstatus is the status drive.files.delete resolved with, sent the
\* chunks piped into the response, late a send attempted after the first.
Idle == [kind |-> "none", pc |-> "idle", field |-> "", name |-> "", hasFile |-> FALSE,
         ts |-> 0, target |-> 0, got |-> 0, data |-> 0, calls |-> 0, returned |-> 0,
         err |-> "", unlinked |-> FALSE, left |-> FALSE, bstatus |-> 0,
         status |-> 0, body |-> "", retId |-> 0, sent |-> 0, late |-> FALSE]

Init ==
    /\ now = 0
    /\ disk = [p \in Paths |-> 0]
    /\ img = [p \in Paths |-> 0]
    /\ remote = [i \in Ids |-> NoFile]
    /\ nextId = 1
    /\ req = [r \in Reqs |-> Idle]
    /\ crashed = FALSE

\* ---------------------------------------------------------------- helpers
\* Requests are numbered in the order the server receives them.
CanArrive(r) ==
    /\ ~crashed
    /\ req[r].pc = "idle"
    /\ \A q \in Reqs : q < r => req[q].pc # "idle"

\* multer.diskStorage filename: Date.now() + '-' + file.originalname
TempName(t, originalname) == <<t, originalname>>

\* file.path of a staged request
PathOf(r) == TempName(req[r].ts, req[r].name)

\* variant: an unlink that removes nothing
UnlinkSyncNoop(d, p) == d

\* fs.unlinkSync(path): the directory afterwards
UnlinkSync(d, p) == [d EXCEPT ![p] = 0]

\* fs.existsSync(path)
ExistsSync(d, p) == d[p] # 0

\* variant: a check for undefined only, letting the empty string through
FalsyUndefinedOnly(v) == v = "UNDEFINED"

\* JavaScript !v for the values a body field takes
Falsy(v) == v \in {"UNDEFINED", ""}

\* res.status(s).send(b): the request is answered.  Its task is over, so of
\* its locals only the route, what it did and what it answered are kept (and
\* the identifier a metadata or delete request named, which the access log
\* keeps).
Respond(rec, s, b) ==
    [Idle EXCEPT !.kind = rec.kind, !.pc = "done", !.status = s, !.body = b,
                 !.field = rec.field, !.hasFile = rec.hasFile, !.calls = rec.calls, !.returned = rec.returned,
                 !.err = rec.err, !.unlinked = rec.unlinked, !.left = rec.left,
                 !.bstatus = rec.bstatus, !.data = rec.data, !.retId = rec.retId,
                 !.sent = rec.sent, !.late = rec.late,
                 !.target = IF rec.kind \in {"deleteFile", "deleteFolder", "metadata"}
                            THEN rec.target ELSE 0]

\* the catch blocks: console.error in the Drive function, then the route's
\* catch answers 500 with its fixed text
Fail(rec, call, b) == Respond([rec EXCEPT !.returned = @ + 1, !.err = call], 500, b)

\* ---------------------------------------------------------------- multer
\* upload.single(field) of the Drive routes: a file part is written to
\* uploadsDir under TempName before the handler runs; kind is the route and
\* t what Date.now() returns, not less than it returned before.
ReceiveMultipart(r, kind, field, name, hasFile, target, t) ==
    /\ CanArrive(r)
    /\ t >= now
    /\ req' = [req EXCEPT ![r] = [Idle EXCEPT !.kind = kind, !.pc = "staged",
                  !.field = field, !.hasFile = hasFile, !.target = target,
                  !.name = IF hasFile THEN name ELSE "",
                  !.ts = IF hasFile THEN t ELSE 0]]
    /\ disk' = IF hasFile THEN [disk EXCEPT ![TempName(t, name)] = r] ELSE disk
    /\ now' = IF hasFile THEN t ELSE now
    /\ UNCHANGED <<img, remote, nextId, crashed>>

\* ---------------------------------------------------------------- upload
UploadFailBody(field) ==
    IF field = "image" THEN "Failed to upload image to Drive."
    ELSE "Failed to upload file to Drive."

UploadOkBody(field) ==
    IF field = "image" THEN "Image uploaded to Drive successfully"
    ELSE "File uploaded to Drive successfully"

\* POST /drive/upload/image|file up to the await of drive.files.create
UploadHandler(r) ==
    /\ ~crashed
    /\ req[r].kind = "upload" /\ req[r].pc = "staged"
    /\ IF ~req[r].hasFile
       THEN req' = [req EXCEPT ![r] = Respond(@, 400,
                       IF @.field = "image" THEN "No image uploaded." ELSE "No file uploaded.")]
       ELSE req' = [req EXCEPT ![r] = [@ EXCEPT !.pc = "create_pending",
                       !.got = disk[PathOf(r)], !.calls = @ + 1]]
    /\ UNCHANGED <<now, disk, img, remote, nextId, crashed>>

\* variant: the temporary file is removed as soon as the create resolved,
\* with the permission grant still pending
CreateReturnsUnlinkEarly(r, ok) ==
    /\ ~crashed
    /\ req[r].kind = "upload" /\ req[r].pc = "create_pending"
    /\ IF ok
       THEN /\ req[r].got # 0
            /\ nextId \in Ids
            /\ remote' = [remote EXCEPT ![nextId] = [exists |-> TRUE, name |-> req[r].name,
                             content |-> req[r].got, public |-> FALSE]]
            /\ nextId' = nextId + 1
            /\ disk' = UnlinkSync(disk, PathOf(r))
            /\ req' = [req EXCEPT ![r] = [@ EXCEPT !.pc = "perm_pending", !.data = nextId,
                           !.returned = @ + 1, !.calls = @ + 1,
                           !.unlinked = ExistsSync(disk, PathOf(r))]]
       ELSE /\ req' = [req EXCEPT ![r] =
                           Fail([@ EXCEPT !.left = ExistsSync(disk, PathOf(r))], "create",
                                UploadFailBody(@.field))]
            /\ UNCHANGED <<remote, nextId, disk>>
    /\ UNCHANGED <<now, img, crashed>>

\* drive.files.create settles; on success the handler goes on to the await
\* of drive.permissions.create, on rejection to the route's catch.  A read
\* stream on a path that holds no file errors, and the call rejects.
CreateReturns(r, ok) ==
    /\ ~crashed
    /\ req[r].kind = "upload" /\ req[r].pc = "create_pending"
    /\ IF ok
       THEN /\ req[r].got # 0
            /\ nextId \in Ids
            /\ remote' = [remote EXCEPT ![nextId] = [exists |-> TRUE, name |-> req[r].name,
                             content |-> req[r].got, public |-> FALSE]]
            /\ nextId' = nextId + 1
            /\ req' = [req EXCEPT ![r] = [@ EXCEPT !.pc = "perm_pending", !.data = nextId,
                           !.returned = @ + 1, !.calls = @ + 1]]
       ELSE /\ req' = [req EXCEPT ![r] =
                           Fail([@ EXCEPT !.left = ExistsSync(disk, PathOf(r))], "create",
                                UploadFailBody(@.field))]
            /\ UNCHANGED <<remote, nextId>>
    /\ UNCHANGED <<now, disk, img, crashed>>

\* what the upload task does once drive.permissions.create resolved:
\* fs.unlinkSync(file.path), return response.data, the route answers 200;
\* unlinkSync throws when the path holds no file, and the route answers 500
UploadFinish(r) ==
    IF ExistsSync(disk, PathOf(r))
    THEN /\ disk' = UnlinkSync(disk, PathOf(r))
         /\ req' = [req EXCEPT ![r] =
                        Respond([@ EXCEPT !.returned = @ + 1, !.unlinked = TRUE,
                                    !.left = ExistsSync(disk', PathOf(r)),
                                    !.retId = req[r].data],
                                200, UploadOkBody(@.field))]
    ELSE /\ disk' = disk
         /\ req' = [req EXCEPT ![r] = Fail(@, "unlink", UploadFailBody(@.field))]

\* variant: a rejected permission grant is swallowed and the task finishes
PermReturnsSwallow(r, ok) ==
    /\ ~crashed
    /\ req[r].kind = "upload" /\ req[r].pc = "perm_pending"
    /\ IF ok
       THEN /\ remote[req[r].data].exists
            /\ remote' = [remote EXCEPT ![req[r].data].public = TRUE]
            /\ UploadFinish(r)
       ELSE /\ remote' = remote
            /\ UploadFinish(r)
    /\ UNCHANGED <<now, img, nextId, crashed>>

\* drive.permissions.create settles; on success the task finishes, on
\* rejection the route's catch answers.
PermReturns(r, ok) ==
    /\ ~crashed
    /\ req[r].kind = "upload" /\ req[r].pc = "perm_pending"
    /\ IF ok
       THEN /\ remote[req[r].data].exists
            /\ remote' = [remote EXCEPT ![req[r].data].public = TRUE]
            /\ UploadFinish(r)
       ELSE /\ req' = [req EXCEPT ![r] =
                           Fail([@ EXCEPT !.left = ExistsSync(disk, PathOf(r))], "perm",
                                UploadFailBody(@.field))]
            /\ UNCHANGED <<remote, disk>>
    /\ UNCHANGED <<now, img, nextId, crashed>>

\* ---------------------------------------------------------------- update
\* PUT /drive/file/:fileId up to the await of drive.files.update
UpdateHandler(r) ==
    /\ ~crashed
    /\ req[r].kind = "update" /\ req[r].pc = "staged"
    /\ IF ~req[r].hasFile
       THEN req' = [req EXCEPT ![r] = Respond(@, 400, "No file provided for update.")]
       ELSE req' = [req EXCEPT ![r] = [@ EXCEPT !.pc = "update_pending",
                       !.got = disk[PathOf(r)], !.calls = @ + 1]]
    /\ UNCHANGED <<now, disk, img, remote, nextId, crashed>>

\* drive.files.update settles; on success name and content of the file are
\* replaced, then fs.unlinkSync(newFile.path) and the 200 response.
UpdateReturns(r, ok) ==
    /\ ~crashed
    /\ req[r].kind = "update" /\ req[r].pc = "update_pending"
    /\ IF ok
       THEN /\ req[r].got # 0
            /\ remote[req[r].target].exists
            /\ remote' = [remote EXCEPT ![req[r].target].name = req[r].name,
                                        ![req[r].target].content = req[r].got]
            /\ IF ExistsSync(disk, PathOf(r))
               THEN /\ disk' = UnlinkSync(disk, PathOf(r))
                    /\ req' = [req EXCEPT ![r] =
                                   Respond([@ EXCEPT !.returned = @ + 1, !.unlinked = TRUE,
                                               !.left = ExistsSync(disk', PathOf(r)),
                                               !.data = req[r].target, !.retId = req[r].target],
                                           200, "File updated in Drive successfully")]
               ELSE /\ disk' = disk
                    /\ req' = [req EXCEPT ![r] =
                                   Fail([@ EXCEPT !.data = req[r].target], "unlink",
                                        "Failed to update file in Drive.")]
       ELSE /\ req' = [req EXCEPT ![r] =
                           Fail([@ EXCEPT !.left = ExistsSync(disk, PathOf(r))], "update",
                                "Failed to update file in Drive.")]
            /\ UNCHANGED <<remote, disk>>
    /\ UNCHANGED <<now, img, nextId, crashed>>

\* ---------------------------------------------------------------- metadata
\* whether an upload was already answered 200 with identifier id
Uploaded(id) ==
    \E u \in Reqs : req[u].kind = "upload" /\ req[u].status = 200 /\ req[u].retId = id

\* GET /drive/file/metadata/:fileId up to the await of drive.files.get;
\* got notes whether the request came after a 200 upload of that identifier
MetadataHandler(r, fileId) ==
    /\ CanArrive(r)
    /\ req' = [req EXCEPT ![r] = [Idle EXCEPT !.kind = "metadata", !.pc = "get_pending",
                  !.target = fileId, !.calls = 1,
                  !.got = IF Uploaded(fileId) THEN 1 ELSE 0]]
    /\ UNCHANGED <<now, disk, img, remote, nextId, crashed>>

\* variant: the fields fetched leave out the id
MetadataReturnsNoId(r) ==
    /\ ~crashed
    /\ req[r].kind = "metadata" /\ req[r].pc = "get_pending"
    /\ IF remote[req[r].target].exists
       THEN req' = [req EXCEPT ![r] =
                       [Respond([@ EXCEPT !.returned = @ + 1], 200, "metadata")
                           EXCEPT !.got = req[r].got]]
       ELSE req' = [req EXCEPT ![r] =
                       [Fail(@, "get", "Failed to get file metadata from Drive.")
                           EXCEPT !.got = req[r].got]]
    /\ UNCHANGED <<now, disk, img, remote, nextId, crashed>>

\* drive.files.get settles: Drive resolves with the file's fields when the
\* identifier names a file and rejects (404) when it does not.
MetadataReturns(r) ==
    /\ ~crashed
    /\ req[r].kind = "metadata" /\ req[r].pc = "get_pending"
    /\ IF remote[req[r].target].exists
       THEN req' = [req EXCEPT ![r] =
                       [Respond([@ EXCEPT !.returned = @ + 1, !.data = req[r].target,
                                    !.retId = req[r].target],
                                200, "metadata")
                           EXCEPT !.got = req[r].got]]
       ELSE req' = [req EXCEPT ![r] =
                       [Fail(@, "get", "Failed to get file metadata from Drive.")
                           EXCEPT !.got = req[r].got]]
    /\ UNCHANGED <<now, disk, img, remote, nextId, crashed>>

\* ---------------------------------------------------------------- delete
\* statuses with which drive.files.delete resolves (others reject)
ResolvedStatuses == {200, 204}

\* variant: any resolved status counts as deleted
DeleteRouteStatusAny2xx(status) == IF status \in {200, 204} THEN 200 ELSE 500

\* the status the two DELETE routes answer for a resolved backend status
DeleteRouteStatus(status) == IF status = 204 THEN 200 ELSE 500

DeleteBody(kind, s) ==
    IF kind = "deleteFile"
    THEN (IF s = 200 THEN "File deleted from Drive successfully."
          ELSE "Failed to delete file from Drive.")
    ELSE (IF s = 200 THEN "Folder deleted successfully."
          ELSE "Failed to delete folder from Drive.")

\* DELETE /drive/file/:fileId and DELETE /drive/folder/:folderId up to the
\* await of drive.files.delete
DeleteHandler(r, kind, id) ==
    /\ CanArrive(r)
    /\ req' = [req EXCEPT ![r] = [Idle EXCEPT !.kind = kind, !.pc = "delete_pending",
                  !.target = id, !.calls = 1]]
    /\ UNCHANGED <<now, disk, img, remote, nextId, crashed>>

\* drive.files.delete settles: it resolves with a status (204 when Drive
\* removed the entry) or rejects.
DeleteReturns(r, resolved, status) ==
    /\ ~crashed
    /\ req[r].kind \in {"deleteFile", "deleteFolder"} /\ req[r].pc = "delete_pending"
    /\ IF resolved
       THEN /\ status = 204 => remote[req[r].target].exists
            /\ remote' = IF status = 204 THEN [remote EXCEPT ![req[r].target] = NoFile]
                         ELSE remote
            /\ req' = [req EXCEPT ![r] =
                           Respond([@ EXCEPT !.returned = @ + 1, !.bstatus = status],
                                   DeleteRouteStatus(status),
                                   DeleteBody(@.kind, DeleteRouteStatus(status)))]
       ELSE /\ status = 0
            /\ remote' = remote
            /\ req' = [req EXCEPT ![r] = Fail(@, "delete", DeleteBody(@.kind, 500))]
    /\ UNCHANGED <<now, disk, img, nextId, crashed>>

\* ---------------------------------------------------------------- folder
\* POST /drive/folder up to the await of drive.files.create
FolderHandler(r, folderName) ==
    /\ CanArrive(r)
    /\ IF Falsy(folderName)
       THEN req' = [req EXCEPT ![r] =
                       [Respond([Idle EXCEPT !.kind = "folder"], 400,
                                "Folder name is required.") EXCEPT !.name = folderName]]
       ELSE req' = [req EXCEPT ![r] = [Idle EXCEPT !.kind = "folder", !.name = folderName,
                       !.pc = "folder_pending", !.calls = 1]]
    /\ UNCHANGED <<now, disk, img, remote, nextId, crashed>>

\* drive.files.create of createFolderInDrive settles
FolderReturns(r, ok) ==
    /\ ~crashed
    /\ req[r].kind = "folder" /\ req[r].pc = "folder_pending"
    /\ IF ok
       THEN /\ nextId \in Ids
            /\ remote' = [remote EXCEPT ![nextId] = [exists |-> TRUE, name |-> req[r].name,
                             content |-> 0, public |-> FALSE]]
            /\ nextId' = nextId + 1
            /\ req' = [req EXCEPT ![r] =
                           [Respond([@ EXCEPT !.returned = @ + 1, !.data = nextId,
                                        !.retId = nextId],
                                    200, "Folder created successfully")
                               EXCEPT !.name = req[r].name]]
       ELSE /\ req' = [req EXCEPT ![r] =
                           [Fail(@, "folder", "Failed to create folder in Drive.")
                               EXCEPT !.name = req[r].name]]
            /\ UNCHANGED <<remote, nextId>>
    /\ UNCHANGED <<now, disk, img, crashed>>

\* ---------------------------------------------------------------- download
\* GET /drive/file/:fileId up to the await of drive.files.get
DownloadHandler(r, fileId) ==
    /\ CanArrive(r)
    /\ req' = [req EXCEPT ![r] = [Idle EXCEPT !.kind = "download", !.pc = "get_pending",
                  !.target = fileId, !.calls = 1]]
    /\ UNCHANGED <<now, disk, img, remote, nextId, crashed>>

\* drive.files.get (alt: 'media', responseType: 'stream') settles: on success
\* the listeners are attached and the stream is piped into res, and
\* downloadFileFromDrive returns; on rejection the route's catch answers 500.
DownloadGetReturns(r) ==
    /\ ~crashed
    /\ req[r].kind = "download" /\ req[r].pc = "get_pending"
    /\ IF remote[req[r].target].exists
       THEN req' = [req EXCEPT ![r] = [@ EXCEPT !.pc = "streaming", !.returned = @ + 1,
                       !.got = remote[req[r].target].content]]
       ELSE req' = [req EXCEPT ![r] = Fail(@, "get", "Failed to download file from Drive.")]
    /\ UNCHANGED <<now, disk, img, remote, nextId, crashed>>

\* a chunk of the stream is piped into res: the first one sends the headers
StreamData(r) ==
    /\ ~crashed
    /\ req[r].kind = "download" /\ req[r].pc = "streaming"
    /\ req[r].sent < MaxChunks
    /\ req' = [req EXCEPT ![r].sent = @ + 1, ![r].status = 200]
    /\ UNCHANGED <<now, disk, img, remote, nextId, crashed>>

\* 'end': pipe ends the response
StreamEnd(r) ==
    /\ ~crashed
    /\ req[r].kind = "download" /\ req[r].pc = "streaming"
    /\ req' = [req EXCEPT ![r] = Respond(@, 200, "stream")]
    /\ UNCHANGED <<now, disk, img, remote, nextId, crashed>>

\* 'error': the listener calls res.status(500).send('Error downloading file.').
\* Before any chunk that is the response; after one the headers are sent,
\* send throws ERR_HTTP_HEADERS_SENT inside the listener and nothing catches it.
StreamError(r) ==
    /\ ~crashed
    /\ req[r].kind = "download" /\ req[r].pc = "streaming"
    /\ IF req[r].sent = 0
       THEN /\ req' = [req EXCEPT ![r] =
                           Respond([@ EXCEPT !.err = "stream"], 500, "Error downloading file.")]
            /\ crashed' = crashed
       ELSE /\ req' = [req EXCEPT ![r] = [@ EXCEPT !.pc = "aborted", !.err = "stream",
                           !.late = TRUE]]
            /\ crashed' = TRUE
    /\ UNCHANGED <<now, disk, img, remote, nextId>>

\* ---------------------------------------------------------------- local routes
\* uploadImage.single / uploadFile.single of the local-only server: imageStorage
\* writes to imgDir, fileStorage to uploadsDir, both under TempName
ReceiveLocal(r, field, name, hasFile, t) ==
    /\ CanArrive(r)
    /\ t >= now
    /\ req' = [req EXCEPT ![r] = [Idle EXCEPT !.kind = "localUpload", !.pc = "staged",
                  !.field = field, !.hasFile = hasFile,
                  !.name = IF hasFile THEN name ELSE "",
                  !.ts = IF hasFile THEN t ELSE 0]]
    /\ disk' = IF hasFile /\ field = "file"
               THEN [disk EXCEPT ![TempName(t, name)] = r] ELSE disk
    /\ img' = IF hasFile /\ field = "image"
              THEN [img EXCEPT ![TempName(t, name)] = r] ELSE img
    /\ now' = IF hasFile THEN t ELSE now
    /\ UNCHANGED <<remote, nextId, crashed>>

\* POST /upload/image and POST /upload/file
LocalUploadHandler(r) ==
    /\ ~crashed
    /\ req[r].kind = "localUpload" /\ req[r].pc = "staged"
    /\ IF ~req[r].hasFile
       THEN req' = [req EXCEPT ![r] = Respond(@, 400,
                       IF @.field = "image" THEN "No image uploaded." ELSE "No file uploaded.")]
       ELSE req' = [req EXCEPT ![r] = Respond(@, 200,
                       IF @.field = "image" THEN "Image uploaded successfully"
                       ELSE "File uploaded successfully")]
    /\ UNCHANGED <<now, disk, img, remote, nextId, crashed>>

\* DELETE /file/:filename up to the call of fs.unlink: filePath is the one in
\* uploadsDir if that exists, else the one in imgDir (field says which)
LocalDeleteHandler(r, filename) ==
    /\ CanArrive(r)
    /\ LET dir == IF ExistsSync(disk, filename) THEN "uploads" ELSE "img"
           there == IF dir = "uploads" THEN ExistsSync(disk, filename)
                    ELSE ExistsSync(img, filename)
           rec == [Idle EXCEPT !.kind = "localDelete", !.field = dir,
                      !.ts = filename[1], !.name = filename[2]]
       IN  req' = [req EXCEPT ![r] =
                      IF there THEN [rec EXCEPT !.pc = "unlink_pending"]
                      ELSE Respond(rec, 404, "File not found.")]
    /\ UNCHANGED <<now, disk, img, remote, nextId, crashed>>

\* the callback of fs.unlink: err is set when the path no longer holds a
\* file (ENOENT)
LocalUnlinkDone(r) ==
    /\ ~crashed
    /\ req[r].kind = "localDelete" /\ req[r].pc = "unlink_pending"
    /\ LET p == PathOf(r)
           d == IF req[r].field = "uploads" THEN disk ELSE img
       IN  IF ExistsSync(d, p)
           THEN /\ disk' = IF req[r].field = "uploads" THEN UnlinkSync(disk, p) ELSE disk
                /\ img' = IF req[r].field = "img" THEN UnlinkSync(img, p) ELSE img
                /\ req' = [req EXCEPT ![r] =
                               Respond([@ EXCEPT !.unlinked = TRUE], 200,
                                       "File deleted successfully.")]
           ELSE /\ UNCHANGED <<disk, img>>
                /\ req' = [req EXCEPT ![r] =
                               Respond([@ EXCEPT !.err = "unlink"], 500, "Error deleting file.")]
    /\ UNCHANGED <<now, remote, nextId, crashed>>

\* ---------------------------------------------------------------- specifications
\* POST /drive/upload/file and PUT /drive/file/:fileId: staging and push
Next ==
    \/ \E r \in Reqs, n \in Names, h \in BOOLEAN, t \in Clock :
           ReceiveMultipart(r, "upload", "file", n, h, 0, t)
    \/ \E r \in Reqs, n \in Names, h \in BOOLEAN, id \in Ids, t \in Clock :
           ReceiveMultipart(r, "update", "file", n, h, id, t)
    \/ \E r \in Reqs : UploadHandler(r)
    \/ \E r \in Reqs, ok \in BOOLEAN : CreateReturns(r, ok)
    \/ \E r \in Reqs, ok \in BOOLEAN : PermReturns(r, ok)
    \/ \E r \in Reqs : UpdateHandler(r)
    \/ \E r \in Reqs, ok \in BOOLEAN : UpdateReturns(r, ok)

Spec == Init /\ [][Next]_vars

\* both upload routes
NextUpload ==
    \/ \E r \in Reqs, f \in Fields, n \in Names, h \in BOOLEAN, t \in Clock :
           ReceiveMultipart(r, "upload", f, n, h, 0, t)
    \/ \E r \in Reqs : UploadHandler(r)
    \/ \E r \in Reqs, ok \in BOOLEAN : CreateReturns(r, ok)
    \/ \E r \in Reqs, ok \in BOOLEAN : PermReturns(r, ok)

SpecUpload == Init /\ [][NextUpload]_vars

\* upload, metadata and the two DELETE routes
NextResolve ==
    \/ \E r \in Reqs, n \in Names, t \in Clock :
           ReceiveMultipart(r, "upload", "file", n, TRUE, 0, t)
    \/ \E r \in Reqs : UploadHandler(r)
    \/ \E r \in Reqs, ok \in BOOLEAN : CreateReturns(r, ok)
    \/ \E r \in Reqs, ok \in BOOLEAN : PermReturns(r, ok)
    \/ \E r \in Reqs, id \in Ids : MetadataHandler(r, id)
    \/ \E r \in Reqs : MetadataReturns(r)
    \/ \E r \in Reqs, k \in {"deleteFile", "deleteFolder"}, id \in Ids : DeleteHandler(r, k, id)
    \/ \E r \in Reqs, s \in ResolvedStatuses : DeleteReturns(r, TRUE, s)
    \/ \E r \in Reqs : DeleteReturns(r, FALSE, 0)

SpecResolve == Init /\ [][NextResolve]_vars

\* the routes that validate their input: PUT /drive/file/:fileId and
\* POST /drive/folder
NextRoutes ==
    \/ \E r \in Reqs, n \in Names, h \in BOOLEAN, id \in Ids, t \in Clock :
           ReceiveMultipart(r, "update", "file", n, h, id, t)
    \/ \E r \in Reqs : UpdateHandler(r)
    \/ \E r \in Reqs, ok \in BOOLEAN : UpdateReturns(r, ok)
    \/ \E r \in Reqs, fn \in FolderNames : FolderHandler(r, fn)
    \/ \E r \in Reqs, ok \in BOOLEAN : FolderReturns(r, ok)

SpecRoutes == Init /\ [][NextRoutes]_vars

\* upload and GET /drive/file/:fileId
NextDownload ==
    \/ \E r \in Reqs, n \in Names, t \in Clock :
           ReceiveMultipart(r, "upload", "file", n, TRUE, 0, t)
    \/ \E r \in Reqs : UploadHandler(r)
    \/ \E r \in Reqs, ok \in BOOLEAN : CreateReturns(r, ok)
    \/ \E r \in Reqs, ok \in BOOLEAN : PermReturns(r, ok)
    \/ \E r \in Reqs, id \in Ids : DownloadHandler(r, id)
    \/ \E r \in Reqs : DownloadGetReturns(r)
    \/ \E r \in Reqs : StreamData(r)
    \/ \E r \in Reqs : StreamEnd(r)
    \/ \E r \in Reqs : StreamError(r)

SpecDownload == Init /\ [][NextDownload]_vars

\* the local-only routes
NextLocal ==
    \/ \E r \in Reqs, f \in Fields, n \in Names, h \in BOOLEAN, t \in Clock :
           ReceiveLocal(r, f, n, h, t)
    \/ \E r \in Reqs : LocalUploadHandler(r)
    \/ \E r \in Reqs, fn \in Paths : LocalDeleteHandler(r, fn)
    \/ \E r \in Reqs : LocalUnlinkDone(r)

\* The scratch directories outlive the process: uploadsDir can hold files
\* of an earlier run (payload -1) when the server starts.
InitLocal ==
    /\ now = 0
    /\ disk \in [Paths -> {0, -1}]
    /\ img = [p \in Paths |-> 0]
    /\ remote = [i \in Ids |-> NoFile]
    /\ nextId = 1
    /\ req = [r \in Reqs |-> Idle]
    /\ crashed = FALSE

SpecLocal == InitLocal /\ [][NextLocal]_vars

\* ================================================================ properties
Staging == {"upload", "update"}

\* a delete request for identifier id was received
DeleteRequested(id) ==
    \E d \in Reqs : req[d].kind \in {"deleteFile", "deleteFolder"} /\ req[d].target = id

\* the request has a temporary file and has not been answered
InFlightStaged(r) ==
    /\ req[r].kind \in Staging
    /\ req[r].hasFile
    /\ req[r].pc \in {"staged", "create_pending", "perm_pending", "update_pending"}

\* C1: a Drive upload or update answered 200 removed its temporary file, and
\* no file existed at file.path when the response was sent.
C1_TempGoneOnSuccess ==
    \A r \in Reqs :
        req[r].kind \in Staging /\ req[r].status = 200
            => req[r].unlinked /\ ~req[r].left

C1_Witness ==
    \E u, v \in Reqs :
        /\ req[u].kind = "upload" /\ req[u].status = 200
        /\ req[v].kind = "update" /\ req[v].status = 200

\* C2: when the remote push of an upload or update fails (files.create,
\* permissions.create or files.update rejects), the request's temporary file
\* exists when the request is answered, and a failed update leaves the remote
\* file as it was.
C2_FailedPushKeepsTemp ==
    [][\A r \in Reqs :
          /\ req[r].pc \in {"create_pending", "perm_pending", "update_pending"}
          /\ req'[r].pc = "done"
          /\ req'[r].err \in {"create", "perm", "update"}
          => /\ disk'[PathOf(r)] # 0
             /\ req[r].kind = "update" => remote'[req[r].target] = remote[req[r].target]]_vars

\* C3: a request that removed its temporary file has no remote call pending:
\* every call it issued has settled, both calls (create, permission grant)
\* for an upload and the one call for an update, none of them with an error.
C3_CleanupAfterPush ==
    \A r \in Reqs :
        req[r].kind \in Staging /\ req[r].unlinked
            => /\ req[r].returned = req[r].calls
               /\ req[r].err = ""
               /\ req[r].kind = "upload" => req[r].returned = 2
               /\ req[r].kind = "update" => req[r].returned = 1

C3_Witness ==
    \E u, v \in Reqs :
        /\ req[u].kind = "upload" /\ req[u].unlinked /\ req[u].returned = 2
        /\ req[v].kind = "update" /\ req[v].unlinked /\ req[v].returned = 1

C6_DeleteStatus ==
    \A d \in Reqs :
        req[d].kind \in {"deleteFile", "deleteFolder"} /\ req[d].pc = "done"
            => /\ req[d].status = 200 <=> req[d].bstatus = 204
               /\ req[d].status \in {200, 500}
               /\ req[d].err = "delete" => req[d].status = 500 /\ req[d].bstatus = 0

C6_Witness ==
    \E d \in Reqs :
        /\ req[d].kind \in {"deleteFile", "deleteFolder"}
        /\ req[d].bstatus = 204 /\ req[d].status = 200

\* C7: a PUT /drive/file request without a file part and a POST /drive/folder
\* request whose folderName is missing or empty are answered 400 and issue
\* no remote call.
C7_Rejected ==
    \A r \in Reqs :
        /\ req[r].kind = "update" /\ ~req[r].hasFile
               => /\ req[r].calls = 0
                  /\ req[r].pc = "done" => req[r].status = 400
        /\ req[r].kind = "folder" /\ req[r].name \in {"UNDEFINED", ""}
               => req[r].calls = 0 /\ req[r].pc = "done" /\ req[r].status = 400

C7_Witness ==
    \E r, q \in Reqs :
        /\ req[r].kind = "update" /\ ~req[r].hasFile /\ req[r].status = 400
        /\ req[q].kind = "folder" /\ req[q].name = "" /\ req[q].status = 400

\* C8: a DELETE /file/:filename request that removed no file, because none
\* was there when it came to delete, is answered 404, never 500.
C8_MissingIs404 ==
    \A r \in Reqs :
        req[r].kind = "localDelete" /\ req[r].pc = "done" /\ ~req[r].unlinked
            => req[r].status = 404

\* C9: two upload/update requests in flight never have the same temporary path.
C9_DistinctTempPaths ==
    \A r, q \in Reqs :
        r # q /\ InFlightStaged(r) /\ InFlightStaged(q) => PathOf(r) # PathOf(q)

\* C10: once chunks of the stream were piped into the response, the download
\* handler does not set a status or send a body again.
C10_SingleResponse ==
    \A r \in Reqs : req[r].kind = "download" => ~req[r].late
====
